---- MODULE Spec2Model ----
(***************************************************************************)
(* PvCmd.py: a Python 2 facade over the ParaVision "pvcmd" executable.     *)
(* Three classes: PvCmd (runs the executable), PvApp / PvScan (command     *)
(* broker for one application) and PvObj (proxy of one dataset).           *)
(*                                                                         *)
(* Every operation is a sequential run of pvcmd invocations.  An operation *)
(* is modelled as an operator that threads a "world" record w through the  *)
(* calls the code makes and yields [w, ret, exc, list]; one action per     *)
(* public operation commits that result to the state.                      *)
(***************************************************************************)
EXTENDS Integers, Sequences, FiniteSets, TLC

VARIABLES
    objList,   \* the suite's scan list: a sequence of datasets
    sel,       \* index in objList of the suite's currently selected object
    dirs,      \* the directories that exist on the filesystem
    base,      \* index pvDsetSsel gives the first entry of the list (0 or 1)
    log,       \* the pvcmd invocations of the last operation, in order
    last       \* the last operation: name, receiver, inputs, outcome

vars == <<objList, sel, dirs, base, log, last>>

-----------------------------------------------------------------------------
(* Bounds of the model *)

\* longest scan list
MaxList == 2
\* latest invocation of an operation at which a tool failure is injected
MaxFailAt == 6

-----------------------------------------------------------------------------
(* Python strings and values *)

IsSpace(c) == c \in {" ", "\n", "\t"}

RECURSIVE lstrip(_)
lstrip(s) ==
    IF Len(s) > 0 /\ IsSpace(SubSeq(s, 1, 1))
    THEN lstrip(SubSeq(s, 2, Len(s)))
    ELSE s

RECURSIVE rstrip(_)
rstrip(s) ==
    IF Len(s) > 0 /\ IsSpace(SubSeq(s, Len(s), Len(s)))
    THEN rstrip(SubSeq(s, 1, Len(s) - 1))
    ELSE s

\* str.strip()
strip(s) == rstrip(lstrip(s))

\* a Python value: None, an int, a str, a bool, a PvScan or a PvObj
None == [kind |-> "none", n |-> 0, s |-> "", pvScan |-> 0]
IntV(i) == [kind |-> "int", n |-> i, s |-> "", pvScan |-> 0]
StrV(t) == [kind |-> "str", n |-> 0, s |-> t, pvScan |-> 0]
Bool(b) == [kind |-> "bool", n |-> IF b THEN 1 ELSE 0, s |-> "", pvScan |-> 0]
ScanRef(id) == [kind |-> "scan", n |-> id, s |-> "", pvScan |-> 0]
\* a PvObj: s is _objpath, pvScan the PvScan it delegates to
Obj(objpath, id) == [kind |-> "obj", n |-> 0, s |-> objpath, pvScan |-> id]

\* str(v); PvObj.__str__ returns _objpath
PyStr(v) ==
    CASE v.kind = "int" -> ToString(v.n)
      [] v.kind = "str" -> v.s
      [] v.kind = "obj" -> v.s
      [] v.kind = "bool" -> (IF v.n = 1 THEN "True" ELSE "False")
      [] OTHER -> "None"

\* truth value of v in "if v:"
Truthy(v) ==
    CASE v.kind = "int" -> v.n # 0
      [] v.kind = "str" -> v.s # ""
      [] v.kind = "bool" -> v.n = 1
      [] v.kind = "none" -> FALSE
      [] OTHER -> TRUE

Digits == {"0", "1", "2", "3", "4", "5", "6", "7", "8", "9"}

RECURSIVE AllDigits(_)
AllDigits(s) ==
    Len(s) = 0 \/ (SubSeq(s, 1, 1) \in Digits /\ AllDigits(SubSeq(s, 2, Len(s))))

\* int(s) of a str succeeds: optional blanks, optional sign, digits
ParsesAsInt(s) ==
    LET t == strip(s)
        u == IF Len(t) > 0 /\ SubSeq(t, 1, 1) \in {"+", "-"}
             THEN SubSeq(t, 2, Len(t)) ELSE t
    IN Len(u) > 0 /\ AllDigits(u)

is_int(v) ==
    CASE v.kind = "int" -> TRUE
      [] v.kind = "bool" -> TRUE
      [] v.kind = "str" -> ParsesAsInt(v.s)
      [] OTHER -> FALSE

-----------------------------------------------------------------------------
(* Result of a call: the world after it, the value returned, the exception  *)
(* raised ("" when it returns normally), and for GetObjList the list        *)

R(w, ret, exc) == [w |-> w, ret |-> ret, exc |-> exc, list |-> <<>>]

Raised(r) == r.exc # ""

-----------------------------------------------------------------------------
(* The environment: the filesystem and the running suite behind pvcmd.      *)
(* The suite keeps one global "currently selected object"; the code reads   *)
(* it with pvDsetPath and moves it with pvDsetObjSel and pvDsetSsel.        *)

\* the datasets of the suite: experiment directory and procno
Datasets ==
    {[exp |-> "/d/1", procno |-> 1], [exp |-> "/d/1", procno |-> 2],
     [exp |-> "/d/2", procno |-> 1]}

\* the PROCNO path of a dataset, as the code builds it in SetObj
ProcnoPath(d) == d.exp \o "/pdata/" \o ToString(d.procno)

AllDirs == {ProcnoPath(d) : d \in Datasets}

\* os.path.isdir
isdir(w, path) == path \in w.dirs

\* how an invocation can fail: exit code, stderr text, or both
FailModes == {"exit", "signal", "stderr", "both"}

\* raw stdout the suite prints for a parameter or command it answers
Replies == {"", "FLASH\n", " 1 2 \n"}

NoFault == [at |-> 0, persist |-> FALSE, mode |-> "exit"]

AllFaults == {NoFault} \cup [at : 1..MaxFailAt, persist : BOOLEAN, mode : FailModes]

\* the operations above _run_pvcmd see only that an invocation failed
Faults == {NoFault} \cup [at : 1..MaxFailAt, persist : BOOLEAN, mode : {"both"}]

\* GetObj and GetObjList make more invocations than the other operations
LongFaults == {NoFault} \cup [at : 1..2 * MaxFailAt, persist : BOOLEAN, mode : {"both"}]

\* is invocation number n hit by the fault
Hit(f, n) == f.at # 0 /\ (n = f.at \/ (f.persist /\ n > f.at))

Response(rc, out, err, s) ==
    [returncode |-> rc, stdout |-> out, stderr |-> err, sel |-> s]

\* the command words of an "-a <app> [-r] <command...>" invocation
CmdWords(args) ==
    IF Len(args) >= 3 /\ args[3] = "-r"
    THEN SubSeq(args, 4, Len(args))
    ELSE SubSeq(args, 3, Len(args))

\* the list positions a selection by path / by number lands on
PathIndex(w, path) ==
    {i \in 1..Len(w.objList) : ProcnoPath(w.objList[i]) = path}
NumIndex(w, k) ==
    {i \in 1..Len(w.objList) : ToString(i - 1 + w.base) = k}

\* the suite's answer to one invocation that reaches it
Suite(w, args) ==
    LET cmd == CmdWords(args)
        cur == w.objList[w.sel]
        answers == Len(args) >= 3 /\ args[3] = "-r"
        pick(S) == IF S = {} THEN Response(1, "", "no such object\n", w.sel)
                   ELSE Response(0, "", "", CHOOSE i \in S : TRUE)
    IN CASE args[1] = "-get" -> Response(0, w.reply, "", w.sel)
         [] args[1] = "-a" /\ args[2] = "pvScan" /\ Len(cmd) > 0 ->
              CASE answers /\ cmd = <<"pvDsetPath", "-path", "PROCNO">> ->
                     Response(0, ProcnoPath(cur) \o "\n", "", w.sel)
                [] answers /\ cmd = <<"pvDsetPath", "-path", "EXPNO">> ->
                     Response(0, cur.exp \o "\n", "", w.sel)
                [] Len(cmd) = 2 /\ cmd[1] = "pvDsetObjSel" ->
                     pick(PathIndex(w, cmd[2]))
                [] Len(cmd) = 2 /\ cmd[1] = "pvDsetSsel" ->
                     pick(NumIndex(w, cmd[2]))
                [] OTHER ->
                     Response(0, IF answers THEN w.reply ELSE "", "", w.sel)
         [] OTHER -> Response(0, "", "", w.sel)

\* what Popen(...).communicate() gives for invocation args
Tool(w, args) ==
    IF Hit(w.fault, Len(w.log) + 1)
    THEN Response(CASE w.fault.mode = "stderr" -> 0
                    [] w.fault.mode = "signal" -> 0 - 9
                    [] OTHER -> 1,
                  w.reply,
                  IF w.fault.mode \in {"stderr", "both"} THEN "pvcmd: error\n" ELSE "",
                  w.sel)
    ELSE Suite(w, args)

-----------------------------------------------------------------------------
(* Statements in sequence: an exception raised by a ends the caller, and    *)
(* otherwise the rest of the body, f, runs on with a's result               *)

Bind(a, f(_)) == IF Raised(a) THEN a ELSE f(a)

\* "try: a; except: pass"-style suppression: a's exception yields value v
Suppress(a, v) == IF Raised(a) THEN R(a.w, v, "") ELSE a

\* the call returns v
Return(a, v) == IF Raised(a) THEN a ELSE R(a.w, v, "")

-----------------------------------------------------------------------------
(* class PvCmd *)

\* mutant: the exit code alone decides, stderr is ignored
Failed_exit_only(t) == t.returncode # 0

\* the test of line 442: the invocation counts as failed
Failed(t) == t.returncode # 0 \/ Len(t.stderr) # 0

\* _run_pvcmd once Popen(...).communicate() has given t
Communicate(w, args, t) ==
    IF Failed(t)
    THEN R([w EXCEPT !.log = Append(@, [args |-> args, failed |-> TRUE, out |-> t.stdout]),
                     !.sel = t.sel],
           None, "ValueError")
    ELSE R([w EXCEPT !.log = Append(@, [args |-> args, failed |-> FALSE, out |-> t.stdout]),
                     !.sel = t.sel],
           StrV(strip(t.stdout)), "")

run_pvcmd(w, args) == Communicate(w, args, Tool(w, args))

-----------------------------------------------------------------------------
(* class PvApp; app is self.app *)

PvApp_GetParam(w, app, param) == run_pvcmd(w, <<"-get", app, param>>)

PvApp_Sync(w, app, path) ==
    Return(IF Truthy(path)
           THEN run_pvcmd(w, <<"-s", path.s>>)
           ELSE run_pvcmd(w, <<"-s", app>>),
           None)

\* mutant: the failure of the -set invocation is swallowed and Sync still runs
PvApp_SetParam_swallow(w, app, param, value) ==
    PvApp_Sync(run_pvcmd(w, <<"-set", app, param, PyStr(value)>>).w, app, None)

PvApp_SetParam(w, app, param, value) ==
    Bind(run_pvcmd(w, <<"-set", app, param, PyStr(value)>>),
         LAMBDA r : PvApp_Sync(r.w, app, None))

\* mutant: the -r flag is left out of the invocation
PvApp_Command_no_r(w, app, cmd) ==
    Bind(run_pvcmd(w, <<"-a", app>> \o cmd),
         LAMBDA res : Return(PvApp_Sync(res.w, app, None), res.ret))

PvApp_Command(w, app, cmd) ==
    Bind(run_pvcmd(w, <<"-a", app, "-r">> \o cmd),
         LAMBDA res : Return(PvApp_Sync(res.w, app, None), res.ret))

PvApp_CommandQuiet(w, app, cmd) ==
    Bind(run_pvcmd(w, <<"-a", app>> \o cmd),
         LAMBDA res : Return(PvApp_Sync(res.w, app, None), res.ret))

-----------------------------------------------------------------------------
(* class PvObj: construction and comparison *)

NotImplemented == [kind |-> "notimpl", n |-> 0, s |-> "", pvScan |-> 0]

\* mutant: the directory check is left out
PvObj_init_no_isdir(w, objpath, pvScan) ==
    IF pvScan.kind # "scan" THEN R(w, None, "ValueError")
    ELSE R(w, Obj(objpath, pvScan.n), "")

\* PvObj.__init__(objpath, pvScan); ret is the new proxy
PvObj_init(w, objpath, pvScan) ==
    IF pvScan.kind # "scan" THEN R(w, None, "ValueError")
    ELSE IF ~isdir(w, objpath) THEN R(w, None, "AttributeError")
    ELSE R(w, Obj(objpath, pvScan.n), "")

\* mutant: the PvScan referred to takes part in the comparison
PvObj_eq_with_scan(self, other) ==
    IF other.kind = "obj" THEN Bool(self = other) ELSE NotImplemented

PvObj_eq(self, other) ==
    IF other.kind = "obj" THEN Bool(self.s = other.s) ELSE NotImplemented

PvObj_ne(self, other) ==
    LET result == PvObj_eq(self, other)
    IN IF result = NotImplemented THEN result ELSE Bool(~Truthy(result))

\* a == b as "in" evaluates it: identity, else __eq__
PyEq(a, b) ==
    IF a.kind = "obj" /\ b.kind = "obj" THEN Truthy(PvObj_eq(a, b)) ELSE a = b

PyIn(x, seq) == \E i \in 1..Len(seq) : PyEq(x, seq[i])

-----------------------------------------------------------------------------
(* class PvScan(PvApp): self.app is 'pvScan' *)

PvScan_ExpPath(w) == PvApp_Command(w, "pvScan", <<"pvDsetPath", "-path", "EXPNO">>)

PvScan_ProcPath(w) == PvApp_Command(w, "pvScan", <<"pvDsetPath", "-path", "PROCNO">>)

PvScan_SetObj(w, pvobj) ==
    IF is_int(pvobj)
    THEN Bind(PvScan_ExpPath(w),
              LAMBDA e :
                  IF isdir(e.w, e.ret.s \o "/pdata/" \o PyStr(pvobj))
                  THEN Return(PvApp_CommandQuiet(e.w, "pvScan",
                                                 <<"pvDsetSsel", PyStr(pvobj)>>),
                              None)
                  ELSE R(e.w, None, "ValueError"))
    ELSE Return(PvApp_CommandQuiet(w, "pvScan", <<"pvDsetObjSel", PyStr(pvobj)>>),
                None)

\* "try: pvobj = PvObj(self.ProcPath(), self); except: pvobj = None"
TryPvObj(w, scan) ==
    Suppress(Bind(PvScan_ProcPath(w),
                  LAMBDA p : PvObj_init(p.w, p.ret.s, ScanRef(scan))),
             None)

\* mutant: the selection is not put back
PvScan_GetObj_no_restore(w, scan, index, restore) ==
    IF Truthy(index)
    THEN Bind(PvScan_SetObj(w, index), LAMBDA s : TryPvObj(s.w, scan))
    ELSE TryPvObj(w, scan)

PvScan_GetObj(w, scan, index, restore) ==
    IF Truthy(index)
    THEN IF restore
         THEN Bind(PvScan_ProcPath(w),
                   LAMBDA oldobj :
                       Bind(PvScan_SetObj(oldobj.w, index),
                            LAMBDA s :
                                Bind(TryPvObj(s.w, scan),
                                     LAMBDA o :
                                         Return(PvScan_SetObj(o.w, oldobj.ret), o.ret))))
         ELSE Bind(PvScan_SetObj(w, index), LAMBDA s : TryPvObj(s.w, scan))
    ELSE TryPvObj(w, scan)

\* PvObj.GetParam, used by GetObjList through pvo.Method
PvObj_GetParam(w, self, name) ==
    Bind(PvScan_SetObj(w, self), LAMBDA s : PvApp_GetParam(s.w, "pvScan", name))

\* "try: method = pvo.Method; except: method = ''"
TryMethod(w, pvo) ==
    IF pvo.kind = "obj"
    THEN Suppress(PvObj_GetParam(w, pvo, "Method"), StrV(""))
    ELSE R(w, StrV(""), "")

\* end of range(0, 100)
RangeEnd == 100

\* the body of the loop of GetObjList once GetObj(index) has given g
RECURSIVE Enumerate(_, _, _, _, _)
Step(scan, index, seen, pvobjlist, g) ==
    IF Raised(g) \/ PyIn(g.ret, seen) THEN [R(g.w, None, "") EXCEPT !.list = pvobjlist]
    ELSE Bind(TryMethod(g.w, g.ret),
              LAMBDA m :
                  Enumerate(m.w, scan, index + 1, Append(seen, g.ret),
                            Append(pvobjlist,
                                   [index |-> index, pvo |-> g.ret, method |-> m.ret.s])))

\* the loop of GetObjList from index on
Enumerate(w, scan, index, seen, pvobjlist) ==
    IF index >= RangeEnd THEN [R(w, None, "") EXCEPT !.list = pvobjlist]
    ELSE Step(scan, index, seen, pvobjlist, PvScan_GetObj(w, scan, IntV(index), FALSE))

PvScan_GetObjList(w, scan) ==
    Bind(PvScan_GetObj(w, scan, None, TRUE),
         LAMBDA selection :
             Bind(Enumerate(selection.w, scan, 0, <<>>, <<>>),
                  LAMBDA e :
                      Bind(PvScan_SetObj(e.w, selection.ret),
                           LAMBDA s : [R(s.w, None, "") EXCEPT !.list = e.list])))

validkeys ==
    {"studyname", "subjectid", "subjectname", "birthdate", "type", "gender",
     "remarks", "name", "studyloc", "coil", "entry", "position",
     "weight", "referral", "purpose"}

\* mutant: every keyword is passed on, valid or not
RECURSIVE StudyArgs_unfiltered(_)
StudyArgs_unfiltered(items) ==
    IF items = <<>> THEN <<>>
    ELSE <<"-" \o Head(items)[1], PyStr(Head(items)[2])>>
         \o StudyArgs_unfiltered(Tail(items))

\* the "-key value" words of the keyword arguments kept, in iteration order
RECURSIVE StudyArgs(_)
StudyArgs(items) ==
    IF items = <<>> THEN <<>>
    ELSE (IF Head(items)[1] \notin validkeys THEN <<>>
          ELSE <<"-" \o Head(items)[1], PyStr(Head(items)[2])>>)
         \o StudyArgs(Tail(items))

\* kwargs['subjectid'] of kwargs.items(), a sequence of <<key, value>>
SubjectId(items) ==
    items[CHOOSE i \in 1..Len(items) : items[i][1] = "subjectid"][2]

PvScan_CreateStudy(w, items) ==
    IF \A i \in 1..Len(items) : items[i][1] # "subjectid" THEN R(w, None, "KeyError")
    ELSE IF SubjectId(items).kind # "str" THEN R(w, None, "TypeError")
    ELSE IF Len(SubjectId(items).s) = 0 THEN R(w, None, "ValueError")
    ELSE PvApp_Command(w, "pvScan", <<"pvDsetCreateStudy">> \o StudyArgs(items))

PvScan_NewScan(w, scan, protocolLoc, protocolName) ==
    Bind(PvApp_Command(w, "pvScan", <<"pvDsetSsel", "New", protocolLoc, protocolName>>),
         LAMBDA c : PvScan_GetObj(c.w, scan, None, TRUE))

-----------------------------------------------------------------------------
(* class PvObj: the operations; self.s is _objpath, self.pvScan is _pvScan  *)

PvObj_SetParam(w, self, name, value) ==
    Bind(PvScan_SetObj(w, self), LAMBDA s : PvApp_SetParam(s.w, "pvScan", name, value))

PvObj_Clone(w, self) ==
    Bind(PvScan_SetObj(w, self),
         LAMBDA s :
             Bind(PvApp_Command(s.w, "pvScan", <<"pvDsetClone", "Scan", "Current">>),
                  LAMBDA c : PvScan_GetObj(c.w, self.pvScan, None, TRUE)))

PvObj_CloneReco(w, self) ==
    Bind(PvScan_SetObj(w, self),
         LAMBDA s :
             Bind(PvApp_Command(s.w, "pvScan", <<"pvDsetClone", "Reco", "Current">>),
                  LAMBDA c : PvScan_GetObj(c.w, self.pvScan, None, TRUE)))

PvObj_RemoveFromList(w, self) ==
    Return(PvApp_Command(w, "pvScan", <<"pvDsetObjListRemove", self.s>>), None)

PvObj_ExportToTopspin(w, self) ==
    Bind(PvScan_SetObj(w, self),
         LAMBDA s : Return(PvApp_Command(s.w, "pvScan", <<"pvDsetExport">>), None))

PvObj_Delete(w, self) ==
    Bind(PvScan_SetObj(w, self),
         LAMBDA s :
             Return(PvApp_Command(s.w, "pvScan",
                                  <<"pvDsetDel", "Scan", "Current", "-Control", "-Alt">>),
                    None))

PvObj_DeleteReco(w, self) ==
    Bind(PvScan_SetObj(w, self),
         LAMBDA s :
             Return(PvApp_Command(s.w, "pvScan",
                                  <<"pvDsetDel", "Reco", "Current", "-Control", "-Alt">>),
                    None))

\* mutant: the three adjustments the error message names
Adjustments_of_message == {"RCVR", "FREQ", "SHIM"}

Adjustments == {"RCVR", "FREQ", "SHIM", "TRANSM"}

Categories == {"Standard", "Current"}

PvObj_Adjustment(w, self, adjustment, category) ==
    IF adjustment \notin Adjustments THEN R(w, None, "ValueError")
    ELSE IF category \notin Categories THEN R(w, None, "ValueError")
    ELSE Bind(PvApp_Command(w, "pvScan",
                            <<"pvStartGsauto", "-cmd", adjustment \o "_" \o category>>),
              LAMBDA c : PvApp_Sync(c.w, "pvScan", StrV(self.s)))

PvObj_Start(w, self) ==
    Bind(PvApp_Command(w, "pvScan", <<"pvStartScan", self.s>>),
         LAMBDA c : PvApp_Sync(c.w, "pvScan", StrV(self.s)))

PvObj_Stop(w, self) ==
    Bind(PvApp_Command(w, "pvScan", <<"pvStopMultiPipe">>),
         LAMBDA a :
             Bind(PvApp_Command(a.w, "pvScan", <<"pvStopPipe", self.s>>),
                  LAMBDA b : PvApp_Sync(b.w, "pvScan", StrV(self.s))))

PvObj_Gop(w, self) ==
    Bind(PvApp_Command(w, "pvScan", <<"pvStartGop", self.s, "-Control", "-Alt">>),
         LAMBDA c : PvApp_Sync(c.w, "pvScan", StrV(self.s)))

PvObj_Gsp(w, self) ==
    Bind(PvApp_Command(w, "pvScan", <<"pvStartGsp", self.s>>),
         LAMBDA c : PvApp_Sync(c.w, "pvScan", StrV(self.s)))

PvObj_Undo(w, self, what) ==
    IF what # "Scan" /\ what # "Reco" THEN R(w, None, "ValueError")
    ELSE Return(PvApp_Command(w, "pvScan",
                              <<"pvDsetUndo", what, self.s, "-Control", "-Alt">>),
                None)

-----------------------------------------------------------------------------
(* The state machine: one action per public operation *)

\* the PvScan objects of the program
ScanIds == {1, 2}

\* application names pvcmd -l may list
Apps == {"pvScan", "pvCmd"}

Params == {"Method", "RG"}

ParamValues == {IntV(110), StrV("FLASH")}

\* the proxies PvObj(path, scan) can construct in the current state
Proxies == {Obj(p, id) : p \in dirs, id \in ScanIds}

\* scan lists: sequences of distinct datasets
ScanLists ==
    UNION {{q \in [1..n -> Datasets] : \A i, j \in 1..n : i # j => q[i] # q[j]}
           : n \in 1..MaxList}

\* the filesystems: every dataset directory exists, or all but one
Filesystems == {AllDirs} \cup {AllDirs \ {d} : d \in AllDirs}

NoTool == Response(0, "", "", 0)

\* no call is in progress or awaiting its caller; s is the selection
Idle(s) ==
    [op |-> "idle", self |-> None, args |-> <<>>, kw |-> <<>>,
     ret |-> None, exc |-> "", list |-> <<>>, selBefore |-> s,
     injected |-> {}, tool |-> NoTool]

Init ==
    /\ objList \in ScanLists
    /\ sel \in 1..Len(objList)
    /\ dirs \in Filesystems
    /\ base \in {0, 1}
    /\ log = <<>>
    /\ last = Idle(sel)

\* the world an operation starts in: fault f pending, the suite answering reply
World(f, reply) ==
    [objList |-> objList, sel |-> sel, dirs |-> dirs, base |-> base,
     log |-> <<>>, fault |-> f, reply |-> reply]

\* the operation has run with result r
Commit(op, self, args, kw, r, tool) ==
    /\ sel' = r.w.sel
    /\ log' = r.w.log
    /\ last' = [op |-> op, self |-> self, args |-> args, kw |-> kw,
                ret |-> r.ret, exc |-> r.exc, list |-> r.list, selBefore |-> sel,
                injected |-> {i \in 1..Len(r.w.log) : Hit(r.w.fault, i)},
                tool |-> tool]
    /\ UNCHANGED <<objList, dirs, base>>

\* the caller has taken the outcome of the call and goes on to its next call
Continue ==
    /\ last.op # "idle"
    /\ last' = Idle(sel)
    /\ log' = <<>>
    /\ UNCHANGED <<objList, sel, dirs, base>>

Wrap(words) == [i \in 1..Len(words) |-> StrV(words[i])]

ArgLists ==
    {<<"-l">>, <<"-get", "pvScan", "RG">>, <<"-s", "pvScan">>,
     <<"-a", "pvScan", "-r", "pvDsetPath", "-path", "PROCNO">>}

RunPvcmd ==
    /\ last.op = "idle"
    /\ \E args \in ArgLists, f \in AllFaults, reply \in Replies :
        LET w == World(f, reply)
            t == Tool(w, args)
        IN Commit("_run_pvcmd", None, Wrap(args), <<>>, run_pvcmd(w, args),
                  [t EXCEPT !.sel = 0])

AppGetParam ==
    /\ last.op = "idle"
    /\ \E app \in Apps, param \in Params, f \in Faults, reply \in Replies :
        Commit("PvApp.GetParam", StrV(app), <<StrV(param)>>, <<>>,
               PvApp_GetParam(World(f, reply), app, param), NoTool)

AppSetParam ==
    /\ last.op = "idle"
    /\ \E app \in Apps, param \in Params, value \in ParamValues, f \in Faults :
        Commit("PvApp.SetParam", StrV(app), <<StrV(param), value>>, <<>>,
               PvApp_SetParam(World(f, ""), app, param, value), NoTool)

SyncPaths == {None, StrV(""), StrV("/d/1/pdata/1")}

AppSync ==
    /\ last.op = "idle"
    /\ \E app \in Apps, path \in SyncPaths, f \in Faults :
        Commit("PvApp.Sync", StrV(app), <<path>>, <<>>,
               PvApp_Sync(World(f, ""), app, path), NoTool)

Commands ==
    {<<"CmdList">>, <<"pvDsetPath", "-path", "PROCNO">>,
     <<"pvStartGsauto", "-cmd", "Auto_SF">>, <<>>}

AppCommand ==
    /\ last.op = "idle"
    /\ \E app \in Apps, cmd \in Commands, f \in Faults, reply \in Replies :
        Commit("PvApp.Command", StrV(app), Wrap(cmd), <<>>,
               PvApp_Command(World(f, reply), app, cmd), NoTool)

AppCommandQuiet ==
    /\ last.op = "idle"
    /\ \E app \in Apps, cmd \in Commands, f \in Faults, reply \in Replies :
        Commit("PvApp.CommandQuiet", StrV(app), Wrap(cmd), <<>>,
               PvApp_CommandQuiet(World(f, reply), app, cmd), NoTool)

ScanExpPath ==
    /\ last.op = "idle"
    /\ \E scan \in ScanIds, f \in Faults :
        Commit("PvScan.ExpPath", ScanRef(scan), <<>>, <<>>,
               PvScan_ExpPath(World(f, "")), NoTool)

ScanProcPath ==
    /\ last.op = "idle"
    /\ \E scan \in ScanIds, f \in Faults :
        Commit("PvScan.ProcPath", ScanRef(scan), <<>>, <<>>,
               PvScan_ProcPath(World(f, "")), NoTool)

Indexes == {None} \cup {IntV(k) : k \in 0..MaxList + 1}

Selectables == Indexes \cup Proxies \cup {StrV(p) : p \in AllDirs}

ScanSetObj ==
    /\ last.op = "idle"
    /\ \E scan \in ScanIds, pvobj \in Selectables, f \in Faults :
        Commit("PvScan.SetObj", ScanRef(scan), <<pvobj>>, <<>>,
               PvScan_SetObj(World(f, ""), pvobj), NoTool)

ScanGetObj ==
    /\ last.op = "idle"
    /\ \E scan \in ScanIds, index \in Indexes, restore \in BOOLEAN, f \in Faults :
        Commit("PvScan.GetObj", ScanRef(scan), <<index, Bool(restore)>>, <<>>,
               PvScan_GetObj(World(f, ""), scan, index, restore), NoTool)

ScanGetObjList ==
    /\ last.op = "idle"
    /\ \E scan \in ScanIds, f \in Faults, reply \in Replies :
        Commit("PvScan.GetObjList", ScanRef(scan), <<>>, <<>>,
               PvScan_GetObjList(World(f, reply), scan), NoTool)

StudyKeys == {"subjectid", "studyname", "color"}

StudyValues(k) ==
    IF k = "subjectid" THEN {StrV("m1"), StrV(""), IntV(7)} ELSE {StrV("x")}

\* the keyword dictionaries of a call, each in an iteration order
Kwargs ==
    LET pairs == {<<k, v>> : k \in StudyKeys, v \in UNION {StudyValues(j) : j \in StudyKeys}}
        ok == {p \in pairs : p[2] \in StudyValues(p[1])}
    IN UNION {{q \in [1..n -> ok] : \A i, j \in 1..n : i # j => q[i][1] # q[j][1]}
              : n \in 0..Cardinality(StudyKeys)}

ScanCreateStudy ==
    /\ last.op = "idle"
    /\ \E scan \in ScanIds, items \in Kwargs, f \in Faults :
        Commit("PvScan.CreateStudy", ScanRef(scan), <<>>, items,
               PvScan_CreateStudy(World(f, "/d/3\n"), items), NoTool)

ScanNewScan ==
    /\ last.op = "idle"
    /\ \E scan \in ScanIds, f \in Faults :
        Commit("PvScan.NewScan", ScanRef(scan), <<StrV("loc"), StrV("FLASH")>>, <<>>,
               PvScan_NewScan(World(f, ""), scan, "loc", "FLASH"), NoTool)

ObjPaths == AllDirs \cup {"/d/2/pdata/2", "/nowhere", ""}

ScanArgs == {ScanRef(id) : id \in ScanIds} \cup {None}

ObjNew ==
    /\ last.op = "idle"
    /\ \E objpath \in ObjPaths, pvScan \in ScanArgs :
        Commit("PvObj", None, <<StrV(objpath), pvScan>>, <<>>,
               PvObj_init(World(NoFault, ""), objpath, pvScan), NoTool)

ObjEq ==
    /\ last.op = "idle"
    /\ \E a \in Proxies, b \in Proxies \cup {None} :
        Commit("PvObj.__eq__", a, <<b>>, <<>>,
               R(World(NoFault, ""), PvObj_eq(a, b), ""), NoTool)

ObjNe ==
    /\ last.op = "idle"
    /\ \E a \in Proxies, b \in Proxies \cup {None} :
        Commit("PvObj.__ne__", a, <<b>>, <<>>,
               R(World(NoFault, ""), PvObj_ne(a, b), ""), NoTool)

ObjGetParam ==
    /\ last.op = "idle"
    /\ \E self \in Proxies, name \in Params, f \in Faults, reply \in Replies :
        Commit("PvObj.GetParam", self, <<StrV(name)>>, <<>>,
               PvObj_GetParam(World(f, reply), self, name), NoTool)

ObjSetParam ==
    /\ last.op = "idle"
    /\ \E self \in Proxies, name \in Params, value \in ParamValues, f \in Faults :
        Commit("PvObj.SetParam", self, <<StrV(name), value>>, <<>>,
               PvObj_SetParam(World(f, ""), self, name, value), NoTool)

ObjClone ==
    /\ last.op = "idle"
    /\ \E self \in Proxies, f \in Faults :
        Commit("PvObj.Clone", self, <<>>, <<>>, PvObj_Clone(World(f, ""), self), NoTool)

ObjCloneReco ==
    /\ last.op = "idle"
    /\ \E self \in Proxies, f \in Faults :
        Commit("PvObj.CloneReco", self, <<>>, <<>>,
               PvObj_CloneReco(World(f, ""), self), NoTool)

ObjRemoveFromList ==
    /\ last.op = "idle"
    /\ \E self \in Proxies, f \in Faults :
        Commit("PvObj.RemoveFromList", self, <<>>, <<>>,
               PvObj_RemoveFromList(World(f, ""), self), NoTool)

ObjExportToTopspin ==
    /\ last.op = "idle"
    /\ \E self \in Proxies, f \in Faults :
        Commit("PvObj.ExportToTopspin", self, <<>>, <<>>,
               PvObj_ExportToTopspin(World(f, ""), self), NoTool)

ObjDelete ==
    /\ last.op = "idle"
    /\ \E self \in Proxies, f \in Faults :
        Commit("PvObj.Delete", self, <<>>, <<>>, PvObj_Delete(World(f, ""), self), NoTool)

ObjDeleteReco ==
    /\ last.op = "idle"
    /\ \E self \in Proxies, f \in Faults :
        Commit("PvObj.DeleteReco", self, <<>>, <<>>,
               PvObj_DeleteReco(World(f, ""), self), NoTool)

AdjustmentArgs == {"RCVR", "FREQ", "SHIM", "TRANSM", "GOP", ""}

CategoryArgs == {"Standard", "Current", "standard"}

ObjAdjustment ==
    /\ last.op = "idle"
    /\ \E self \in Proxies, adjustment \in AdjustmentArgs, category \in CategoryArgs,
       f \in Faults :
        Commit("PvObj.Adjustment", self, <<StrV(adjustment), StrV(category)>>, <<>>,
               PvObj_Adjustment(World(f, ""), self, adjustment, category), NoTool)

ObjStart ==
    /\ last.op = "idle"
    /\ \E self \in Proxies, f \in Faults :
        Commit("PvObj.Start", self, <<>>, <<>>, PvObj_Start(World(f, ""), self), NoTool)

ObjStop ==
    /\ last.op = "idle"
    /\ \E self \in Proxies, f \in Faults :
        Commit("PvObj.Stop", self, <<>>, <<>>, PvObj_Stop(World(f, ""), self), NoTool)

ObjGop ==
    /\ last.op = "idle"
    /\ \E self \in Proxies, f \in Faults :
        Commit("PvObj.Gop", self, <<>>, <<>>, PvObj_Gop(World(f, ""), self), NoTool)

ObjGsp ==
    /\ last.op = "idle"
    /\ \E self \in Proxies, f \in Faults :
        Commit("PvObj.Gsp", self, <<>>, <<>>, PvObj_Gsp(World(f, ""), self), NoTool)

WhatArgs == {"Scan", "Reco", "scan", "Current"}

ObjUndo ==
    /\ last.op = "idle"
    /\ \E self \in Proxies, what \in WhatArgs, f \in Faults :
        Commit("PvObj.Undo", self, <<StrV(what)>>, <<>>,
               PvObj_Undo(World(f, ""), self, what), NoTool)

Next ==
    \/ RunPvcmd
    \/ AppGetParam
    \/ AppSetParam
    \/ AppSync
    \/ AppCommand
    \/ AppCommandQuiet
    \/ ScanExpPath
    \/ ScanProcPath
    \/ ScanSetObj
    \/ ScanGetObj
    \/ ScanGetObjList
    \/ ScanCreateStudy
    \/ ScanNewScan
    \/ ObjNew
    \/ ObjEq
    \/ ObjNe
    \/ ObjGetParam
    \/ ObjSetParam
    \/ ObjClone
    \/ ObjCloneReco
    \/ ObjRemoveFromList
    \/ ObjExportToTopspin
    \/ ObjDelete
    \/ ObjDeleteReco
    \/ ObjAdjustment
    \/ ObjStart
    \/ ObjStop
    \/ ObjGop
    \/ ObjGsp
    \/ ObjUndo
    \/ Continue

Spec == Init /\ [][Next]_vars

-----------------------------------------------------------------------------
(* Properties *)

\* the argument words of a call, as strings
Unwrap(args) == [i \in 1..Len(args) |-> args[i].s]

\* the argument lists of the invocations issued, in order
Issued == [i \in 1..Len(log) |-> log[i].args]

\* q is a non-empty proper-or-full prefix of e whose last invocation failed
FailedPrefix(e) ==
    /\ Len(log) \in 1..Len(e)
    /\ Issued = SubSeq(e, 1, Len(log))
    /\ log[Len(log)].failed
    /\ \A i \in 1..Len(log) - 1 : ~log[i].failed

\* r is s without its leading and trailing whitespace
IsStripOf(r, s) ==
    \E a, b \in 0..Len(s) :
        /\ a + b <= Len(s)
        /\ r = SubSeq(s, a + 1, Len(s) - b)
        /\ \A i \in 1..a : SubSeq(s, i, i) \in {" ", "\n", "\t"}
        /\ \A i \in Len(s) - b + 1..Len(s) : SubSeq(s, i, i) \in {" ", "\n", "\t"}
        /\ Len(r) > 0 => /\ SubSeq(r, 1, 1) \notin {" ", "\n", "\t"}
                         /\ SubSeq(r, Len(r), Len(r)) \notin {" ", "\n", "\t"}

\* some invocation of the last operation failed
SomeFailed == \E i \in 1..Len(log) : log[i].failed

\* the first failed invocation ended the operation with an error
Propagated == last.exc # "" /\ \A i \in 1..Len(log) : log[i].failed <=> i = Len(log)

PathQuery == <<"-a", "pvScan", "-r", "pvDsetPath", "-path", "PROCNO">>

\* invocation i belongs to a PROCNO path query: the query or the sync after it
InPathQuery(i) ==
    \/ log[i].args = PathQuery
    \/ i > 1 /\ log[i].args = <<"-s", "pvScan">> /\ log[i - 1].args = PathQuery

\* the operations that raise at the first failed invocation
StrictOps ==
    {"_run_pvcmd", "PvApp.GetParam", "PvApp.SetParam", "PvApp.Sync", "PvApp.Command",
     "PvApp.CommandQuiet", "PvScan.ExpPath", "PvScan.ProcPath", "PvScan.SetObj",
     "PvScan.CreateStudy", "PvObj.GetParam", "PvObj.SetParam", "PvObj.RemoveFromList",
     "PvObj.ExportToTopspin", "PvObj.Delete", "PvObj.DeleteReco", "PvObj.Adjustment",
     "PvObj.Start", "PvObj.Stop", "PvObj.Gop", "PvObj.Gsp", "PvObj.Undo"}

\* the operations that build a proxy through GetObj
GetObjOps == {"PvScan.GetObj", "PvScan.NewScan", "PvObj.Clone", "PvObj.CloneReco"}

\* C1 as stated: in every public operation a failed pvcmd invocation makes the
\* operation raise, and no invocation follows the failed one.
C1_FailuresPropagate ==
    (last.op \in StrictOps \cup GetObjOps \cup {"PvScan.GetObjList"} /\ SomeFailed)
        => Propagated

\* C1 amended: a failed invocation ends the operation with an error at once in every
\* operation except GetObj, GetObjList and the operations that end in GetObj();
\* GetObj swallows a failed PROCNO path query (returning None if it returns), and
\* GetObjList raises only for a failure of its last invocation.
C1_FailuresPropagateExceptGetObj ==
    /\ (last.op \in StrictOps /\ SomeFailed) => Propagated
    /\ last.op \in GetObjOps =>
           /\ \A i \in 1..Len(log) :
                  log[i].failed => \/ (i = Len(log) /\ last.exc # "")
                                   \/ InPathQuery(i)
           /\ (SomeFailed /\ last.exc = "") => last.ret = None
    /\ (last.op = "PvScan.GetObjList" /\ last.exc # "") => log[Len(log)].failed

\* a three-invocation prefix of Stop: the third invocation failed and ended it
C1_Witness ==
    /\ last.op = "PvObj.Stop"
    /\ Len(log) = 3
    /\ log[3].failed
    /\ last.exc = "ValueError"

\* C2: _run_pvcmd runs the executable once; it raises ValueError and returns nothing
\* exactly when the exit code is non-zero or stderr is non-empty, and otherwise
\* returns stdout stripped of leading and trailing whitespace.
C2_RunPvcmdContract ==
    last.op = "_run_pvcmd" =>
        LET t == last.tool
            bad == t.returncode # 0 \/ t.stderr # ""
        IN /\ Len(log) = 1
           /\ log[1].args = Unwrap(last.args)
           /\ bad <=> last.exc = "ValueError"
           /\ bad => last.ret = None
           /\ ~bad => /\ last.exc = ""
                      /\ last.ret.kind = "str"
                      /\ IsStripOf(last.ret.s, t.stdout)

\* exit code 0 with text on stderr and on stdout: the call raised
C2_Witness ==
    /\ last.op = "_run_pvcmd"
    /\ last.tool.returncode = 0
    /\ last.tool.stderr # ""
    /\ last.tool.stdout # ""
    /\ last.exc = "ValueError"

\* the invocations a PvApp operation on application a is to issue
C3_Expected(a) ==
    CASE last.op = "PvApp.GetParam" -> <<<<"-get", a, last.args[1].s>>>>
      [] last.op = "PvApp.SetParam" ->
           <<<<"-set", a, last.args[1].s,
               IF last.args[2].kind = "int" /\ last.args[2].n = 110
               THEN "110" ELSE last.args[2].s>>,
             <<"-s", a>>>>
      [] last.op = "PvApp.Sync" ->
           <<IF last.args[1].kind = "str" /\ last.args[1].s # ""
             THEN <<"-s", last.args[1].s>> ELSE <<"-s", a>>>>
      [] last.op = "PvApp.Command" -> <<<<"-a", a, "-r">> \o Unwrap(last.args), <<"-s", a>>>>
      [] last.op = "PvApp.CommandQuiet" -> <<<<"-a", a>> \o Unwrap(last.args), <<"-s", a>>>>
      [] OTHER -> <<>>

PvAppOps ==
    {"PvApp.GetParam", "PvApp.SetParam", "PvApp.Sync", "PvApp.Command",
     "PvApp.CommandQuiet"}

\* C3: GetParam, SetParam, Command, CommandQuiet and Sync of a PvApp issue exactly
\* the argument lists the claim gives, in order, up to the first failed invocation;
\* GetParam and Command return the reply of their first invocation.
C3_ArgumentLists ==
    last.op \in PvAppOps =>
        LET e == C3_Expected(last.self.s)
        IN /\ last.exc = "" => Issued = e /\ ~SomeFailed
           /\ last.exc # "" => FailedPrefix(e)
           /\ (last.exc = "" /\ last.op \in {"PvApp.GetParam", "PvApp.Command"})
                  => last.ret.kind = "str" /\ IsStripOf(last.ret.s, log[1].out)

\* a three-word command to an application other than pvScan ran and synced
C3_Witness ==
    /\ last.op = "PvApp.Command"
    /\ last.self.s = "pvCmd"
    /\ Len(last.args) = 3
    /\ last.exc = ""
    /\ Len(log) = 2

\* the keys of the keyword arguments of the last CreateStudy call
C4_Keys == {last.kw[i][1] : i \in 1..Len(last.kw)}

\* the "-key value" words of keyword i, none for a key outside the valid list
C4_Words(i) ==
    IF i > Len(last.kw) \/ last.kw[i][1] \notin
           {"studyname", "subjectid", "subjectname", "birthdate", "type", "gender",
            "remarks", "name", "studyloc", "coil", "entry", "position", "weight",
            "referral", "purpose"}
    THEN <<>>
    ELSE <<"-" \o last.kw[i][1], last.kw[i][2].s>>

\* C4 as stated: CreateStudy called with a keyword outside the valid list raises
\* an error and issues no pvDsetCreateStudy invocation.
C4_BadKeywordRejected ==
    (last.op = "PvScan.CreateStudy" /\ "color" \in C4_Keys) =>
        /\ last.exc # ""
        /\ \A i \in 1..Len(log) : \A j \in 1..Len(log[i].args) :
               log[i].args[j] # "pvDsetCreateStudy"

\* C4 amended: CreateStudy skips keywords outside the valid list; with subjectid a
\* non-empty string it issues pvDsetCreateStudy with the "-key value" words of the
\* valid keywords only, in order, and raises only if an invocation fails; it raises
\* without any invocation only when subjectid is missing, unsized or empty.
C4_BadKeywordSkipped ==
    last.op = "PvScan.CreateStudy" =>
        LET ids == {i \in 1..Len(last.kw) : last.kw[i][1] = "subjectid"}
        IN IF ids = {} THEN last.exc = "KeyError" /\ log = <<>>
           ELSE IF \E i \in ids : last.kw[i][2].kind # "str"
           THEN last.exc = "TypeError" /\ log = <<>>
           ELSE IF \E i \in ids : last.kw[i][2].s = ""
           THEN last.exc = "ValueError" /\ log = <<>>
           ELSE /\ Len(log) >= 1
                /\ log[1].args = <<"-a", "pvScan", "-r", "pvDsetCreateStudy">>
                                     \o C4_Words(1) \o C4_Words(2) \o C4_Words(3)
                /\ last.exc # "" <=> SomeFailed

\* a call with a disallowed keyword returned normally after running the command
C4_Witness ==
    /\ last.op = "PvScan.CreateStudy"
    /\ "color" \in C4_Keys
    /\ Len(last.kw) = 3
    /\ last.exc = ""
    /\ Len(log) = 2

\* C5: PvObj(objpath, pvScan) with objpath no existing directory raises
\* AttributeError, yields no proxy and issues no invocation, whatever PvScan is given.
C5_ConstructorRejectsMissingDir ==
    (last.op = "PvObj" /\ last.args[2].kind = "scan" /\ last.args[1].s \notin dirs) =>
        /\ last.exc = "AttributeError"
        /\ last.ret = None
        /\ log = <<>>

\* the path of a dataset of the suite whose directory is missing was refused
C5_Witness ==
    /\ last.op = "PvObj"
    /\ last.args[2].kind = "scan"
    /\ last.args[1].s \notin dirs
    /\ \E i \in 1..Len(objList) : ProcnoPath(objList[i]) = last.args[1].s
    /\ last.exc = "AttributeError"

\* C6: Adjustment raises ValueError before any invocation for an adjustment outside
\* {RCVR, FREQ, SHIM, TRANSM} or a category outside {Standard, Current}, Undo for a
\* 'what' other than Scan and Reco; values inside the sets reach the command.
C6_EnumeratedArguments ==
    /\ last.op = "PvObj.Adjustment" =>
           LET adjustment == last.args[1].s
               category == last.args[2].s
           IN IF /\ adjustment \in {"RCVR", "FREQ", "SHIM", "TRANSM"}
                 /\ category \in {"Standard", "Current"}
              THEN /\ Len(log) >= 1
                   /\ log[1].args = <<"-a", "pvScan", "-r", "pvStartGsauto", "-cmd",
                                      adjustment \o "_" \o category>>
                   /\ last.exc # "" => SomeFailed
              ELSE last.exc = "ValueError" /\ log = <<>>
    /\ last.op = "PvObj.Undo" =>
           LET what == last.args[1].s
           IN IF what \in {"Scan", "Reco"}
              THEN /\ Len(log) >= 1
                   /\ log[1].args = <<"-a", "pvScan", "-r", "pvDsetUndo", what,
                                      last.self.s, "-Control", "-Alt">>
                   /\ last.exc # "" => SomeFailed
              ELSE last.exc = "ValueError" /\ log = <<>>

\* the adjustment the error message does not name was accepted and ran
C6_Witness ==
    /\ last.op = "PvObj.Adjustment"
    /\ last.args = <<StrV("TRANSM"), StrV("Current")>>
    /\ last.exc = ""
    /\ Len(log) = 3

\* C7: a == b of two proxies holds iff their path strings are equal, whatever PvScan
\* each refers to; a != b is its negation; neither issues an invocation nor moves
\* the selection.
C7_EqualityByPath ==
    (last.op \in {"PvObj.__eq__", "PvObj.__ne__"} /\ last.args[1].kind = "obj") =>
        /\ last.ret = Bool((last.self.s = last.args[1].s) <=> (last.op = "PvObj.__eq__"))
        /\ log = <<>>
        /\ sel = last.selBefore

\* two proxies of one path on different PvScan objects compared equal
C7_Witness ==
    /\ last.op = "PvObj.__eq__"
    /\ last.args[1].kind = "obj"
    /\ last.self.s = last.args[1].s
    /\ last.self.pvScan # last.args[1].pvScan
    /\ last.ret = Bool(TRUE)

\* C8 as stated: with no tool failure and every dataset directory of the list
\* present, GetObjList returns each entry of the scan list exactly once and no None.
C8_GetObjListComplete ==
    (/\ last.op = "PvScan.GetObjList"
     /\ last.exc = ""
     /\ last.injected = {}
     /\ \A i \in 1..Len(objList) : ProcnoPath(objList[i]) \in dirs) =>
        /\ \A j \in 1..Len(last.list) : last.list[j].pvo.kind = "obj"
        /\ \A i \in 1..Len(objList) :
               Cardinality({j \in 1..Len(last.list) :
                                last.list[j].pvo.s = ProcnoPath(objList[i])}) = 1

\* C9: when GetObj(index, restore=True) or GetObjList() returns normally the
\* selected object is the one selected before the call.
C9_SelectionPreserved ==
    (/\ \/ last.op = "PvScan.GetObj" /\ last.args[2] = Bool(TRUE)
        \/ last.op = "PvScan.GetObjList"
     /\ last.exc = "") =>
        sel = last.selBefore

\* GetObj(2) fetched the second entry while the first was selected, and returned
C9_Witness ==
    /\ last.op = "PvScan.GetObj"
    /\ last.args = <<IntV(2), Bool(TRUE)>>
    /\ last.exc = ""
    /\ base = 1
    /\ Len(objList) = 2
    /\ last.selBefore = 1
    /\ last.ret.kind = "obj"
    /\ last.ret.s = ProcnoPath(objList[2])

PvObjOps ==
    {"PvObj.GetParam", "PvObj.SetParam", "PvObj.Clone", "PvObj.CloneReco",
     "PvObj.RemoveFromList", "PvObj.ExportToTopspin", "PvObj.Delete",
     "PvObj.DeleteReco", "PvObj.Adjustment", "PvObj.Start", "PvObj.Stop",
     "PvObj.Gop", "PvObj.Gsp", "PvObj.Undo"}

\* C10 as stated: every get, set or command a PvObj operation sends to the scan
\* application either follows a pvDsetObjSel of the object's path issued earlier
\* in the same call, or carries the object's path among its arguments; stated here
\* for the calls made while another object is the selected one.
C10_ActsOnItsObject ==
    (last.op \in PvObjOps /\ ProcnoPath(objList[last.selBefore]) # last.self.s) =>
        \A i \in 1..Len(log) :
            log[i].args[1] \in {"-get", "-set", "-a"} =>
                \/ \E j \in 1..i - 1 :
                       log[j].args = <<"-a", "pvScan", "pvDsetObjSel", last.self.s>>
                \/ \E k \in 1..Len(log[i].args) : log[i].args[k] = last.self.s

====
